---- MODULE Spec2Model ----
(***************************************************************************)
(* A model of xxhtools: the hashing command (xxh.py), the comparison       *)
(* command (xdiff.py) and the file helpers both use (file_utils.py).       *)
(*                                                                         *)
(* Strings are sequences of one-character strings, so that prefix tests,   *)
(* slicing, stripping and pattern matching are computed character by       *)
(* character as the Python code computes them.                             *)
(***************************************************************************)
EXTENDS Integers, Sequences, FiniteSets, TLC

VARIABLES
    fs,           \* the filesystem: absolute path -> attributes
    mf_lines,     \* the lines of the manifest / cache file /w/m
    fs_changes,   \* how many times the environment changed the filesystem
    args,         \* the command line of the running command
    pc,           \* the position of the running command
    cache_dict,   \* xdiff: absolute path -> digest, loaded from the cache file
    ci,           \* xdiff.get_hashes_from_cache: lines read so far
    hash_dict,    \* xdiff: digest -> sequence of paths
    roots,        \* the operands the current loop has still to take
    todo,         \* the files of the current directory still to take
    cur,          \* the file that passed the readability check
    report,       \* xdiff: what print_path_comparison printed
    errors,       \* the diagnostics print_error printed, in order
    exit_code,    \* 0, or the status SystemExit carried
    xxh_calls,    \* the paths fu.xxh was called with
    xxh_failed,   \* the paths for which fu.xxh returned ""
    traversed,    \* the roots os.walk was started on
    hashed_files, \* xxh: previously_hashed_files(fileoutput)
    files,        \* xxh: paths_info(...)["files"] still to take
    stdout,       \* xxh: the records printed to standard output
    run,          \* xxh: the number of the current file_output run
    mf_before     \* xxh: the manifest's lines when the current run started

vars == <<fs, mf_lines, fs_changes, args, pc, cache_dict, ci, hash_dict, roots,
          todo, cur, report, errors, exit_code, xxh_calls, xxh_failed,
          traversed, hashed_files, files, stdout, run, mf_before>>

(***************************************************************************)
(* Bounds                                                                  *)
(***************************************************************************)
\* how many times the environment may change the filesystem during a run
MaxFsChanges == 1
\* how many lines a cache file read by SpecCache holds at most
MaxLines == 3
\* how many file_output runs follow one another
MaxRuns == 2

(***************************************************************************)
(* Strings                                                                 *)
(***************************************************************************)
\* [0-9a-f], the class of xdiff.RE_LINE and xxh.RE_HASH
HexChars == {"0", "1", "2", "3", "4", "5", "6", "7", "8", "9",
             "a", "b", "c", "d", "e", "f"}

\* {16}, the repetition of xdiff.RE_LINE and xxh.RE_HASH
HashLen == 16

\* what str.strip() removes
Whitespace == {" ", "\n", "\t"}

\* str.startswith
StartsWith(s, p) == Len(p) <= Len(s) /\ SubSeq(s, 1, Len(p)) = p

\* s[n:]
Drop(s, n) == SubSeq(s, n + 1, Len(s))

RECURSIVE LStrip(_)
LStrip(s) == IF s # <<>> /\ Head(s) \in Whitespace THEN LStrip(Tail(s)) ELSE s

RECURSIVE RStrip(_)
RStrip(s) ==
    IF s # <<>> /\ s[Len(s)] \in Whitespace
    THEN RStrip(SubSeq(s, 1, Len(s) - 1)) ELSE s

\* str.strip()
Strip(s) == RStrip(LStrip(s))

\* whether an element of sequence s is x
InSeq(x, s) == \E i \in 1..Len(s) : s[i] = x

(***************************************************************************)
(* Paths (os.path)                                                         *)
(***************************************************************************)
\* the current working directory, /w
Cwd == <<"/", "w">>

IsAbs(p) == p # <<>> /\ Head(p) = "/"

\* os.path.join(a, b)
Join(a, b) ==
    IF IsAbs(b) THEN b
    ELSE IF a = <<>> \/ a[Len(a)] = "/" THEN a \o b
    ELSE a \o <<"/">> \o b

\* p.split("/"): the components of p, empty ones included
RECURSIVE Split(_, _)
Split(p, acc) ==
    IF p = <<>> THEN <<acc>>
    ELSE IF Head(p) = "/" THEN <<acc>> \o Split(Tail(p), <<>>)
    ELSE Split(Tail(p), Append(acc, Head(p)))

\* os.path.normpath's loop over the components of an absolute path
RECURSIVE NormComps(_, _)
NormComps(comps, acc) ==
    IF comps = <<>> THEN acc
    ELSE LET c == Head(comps) IN
         IF c = <<>> \/ c = <<".">> THEN NormComps(Tail(comps), acc)
         ELSE IF c = <<".", ".">>
              THEN NormComps(Tail(comps),
                             IF acc = <<>> THEN acc
                             ELSE SubSeq(acc, 1, Len(acc) - 1))
              ELSE NormComps(Tail(comps), Append(acc, c))

RECURSIVE JoinComps(_)
JoinComps(comps) ==
    IF comps = <<>> THEN <<>>
    ELSE <<"/">> \o Head(comps) \o JoinComps(Tail(comps))

\* os.path.normpath of an absolute path
NormPath(p) ==
    LET comps == NormComps(Split(p, <<>>), <<>>) IN
    IF comps = <<>> THEN <<"/">> ELSE JoinComps(comps)

\* os.path.abspath
AbsPath(p) == NormPath(IF IsAbs(p) THEN p ELSE Join(Cwd, p))

(***************************************************************************)
(* The filesystem                                                          *)
(*                                                                         *)
(*   /w/a/sx   /w/a/s/z   /w/b/y   /w/b/v   /w/l -> /w/a   /w/m (manifest)  *)
(*                                                                         *)
(* /w/a/sx is a file beside the directory /w/a/s whose path starts with    *)
(* the characters of that directory's path.                                *)
(***************************************************************************)
DirA == <<"/", "w", "/", "a">>
DirS == <<"/", "w", "/", "a", "/", "s">>
DirB == <<"/", "w", "/", "b">>
FX == <<"/", "w", "/", "a", "/", "s", "x">>
FZ == <<"/", "w", "/", "a", "/", "s", "/", "z">>
FY == <<"/", "w", "/", "b", "/", "y">>
FV == <<"/", "w", "/", "b", "/", "v">>
LinkL == <<"/", "w", "/", "l">>
MF == <<"/", "w", "/", "m">>

Dirs == {DirA, DirS, DirB}
Files == {FX, FZ, FY, FV}
Nodes == Dirs \cup Files \cup {MF}

\* what stat() finds where nothing is
Missing == [kind |-> "none", link |-> FALSE, readable |-> FALSE,
            writable |-> FALSE, content |-> 0]

\* os.path.dirname of an absolute path
RECURSIVE Dirname(_)
Dirname(p) ==
    IF p = <<>> THEN <<>>
    ELSE IF p[Len(p)] = "/" THEN SubSeq(p, 1, Len(p) - 1)
    ELSE Dirname(SubSeq(p, 1, Len(p) - 1))

\* os.path.basename of an absolute path
Basename(p) == Drop(p, Len(Dirname(p)) + 1)

\* the place a path names, the symbolic link /w/l followed
RealPath(p) ==
    LET abs == AbsPath(p) IN
    IF abs = LinkL THEN DirA
    ELSE IF StartsWith(abs, LinkL \o <<"/">>)
         THEN DirA \o Drop(abs, Len(LinkL))
         ELSE abs

\* the attributes of what a path names; link says whether the path itself is
\* a symbolic link, the other attributes are those of what it leads to
Stat(p) ==
    LET n == RealPath(p) IN
    IF n \notin Nodes THEN Missing
    ELSE IF AbsPath(p) = LinkL THEN [fs[n] EXCEPT !.link = TRUE]
    ELSE fs[n]

isfile(p) == Stat(p).kind = "file"
isdir(p) == Stat(p).kind = "dir"
islink(p) == Stat(p).link
exists(p) == Stat(p).kind # "none"
access_R(p) == exists(p) /\ Stat(p).readable
access_W(p) == exists(p) /\ Stat(p).writable

\* os.walk's files, each joined to the directory it was found in; a
\* directory that cannot be listed yields nothing, a linked one is not entered
RECURSIVE all_files_in_directory(_, _)
all_files_in_directory(path, is_recursive) ==
    LET d == RealPath(path)
        entries == {n \in Nodes : Dirname(n) = d /\ fs[n].kind # "none"}
        subdirs == {n \in entries : fs[n].kind = "dir" /\ ~fs[n].link}
    IN  IF ~isdir(path) \/ ~access_R(path) THEN {}
        ELSE {Join(path, Basename(n)) : n \in {e \in entries : fs[e].kind = "file"}}
             \cup (IF is_recursive
                   THEN UNION {all_files_in_directory(Join(path, Basename(n)), TRUE) :
                                 n \in subdirs}
                   ELSE {})

is_appendable_file(file_name) ==
    isfile(file_name) /\ ~islink(file_name)
    /\ access_R(file_name) /\ access_W(file_name)

is_readable_dir_nolink(dir_name) == isdir(dir_name) /\ access_R(dir_name)

is_readable_dir(dir_name) ==
    isdir(dir_name) /\ ~islink(dir_name) /\ access_R(dir_name)

is_readable_file(file_name) ==
    isfile(file_name) /\ ~islink(file_name) /\ access_R(file_name)

is_readable_path(path) == ~islink(path) /\ access_R(path)

\* the hex digit that stands for a file's content in its digest
HexOfContent == <<"a", "b">>

\* xxh3_64(...).hexdigest() of a file holding content c
Digest(c) == [i \in 1..HashLen |-> HexOfContent[c]]

\* fu.xxh: the digest, or "" when the file fails the readability check
xxh(file_name) ==
    IF is_readable_file(file_name) THEN Digest(Stat(file_name).content)
    ELSE <<>>

\* the diagnostic fu.xxh prints when the check fails
XxhErrors(file_name) ==
    IF is_readable_file(file_name) THEN <<>> ELSE << <<"xxh", file_name>> >>

(***************************************************************************)
(* xdiff.py: the comparison command                                        *)
(***************************************************************************)
\* {}, the empty dict
EmptyDict == <<>>

\* nothing printed yet by print_path_comparison
NoReport == [printed |-> FALSE, exclusive1 |-> EmptyDict,
             exclusive2 |-> EmptyDict, common |-> EmptyDict, summary |-> <<>>]

\* dict[key] = value
DictSet(dict, key, value) ==
    [k \in DOMAIN dict \cup {key} |-> IF k = key THEN value ELSE dict[k]]

add_to_list_dict(dict, key, value) ==
    IF key \in DOMAIN dict
    THEN IF InSeq(value, dict[key]) THEN dict
         ELSE DictSet(dict, key, Append(dict[key], value))
    ELSE DictSet(dict, key, <<value>>)

\* files_hash_dict's insert, which appends without looking
append_to_list_dict(dict, key, value) ==
    IF key \in DOMAIN dict
    THEN DictSet(dict, key, Append(dict[key], value))
    ELSE DictSet(dict, key, <<value>>)

\* whether the cache is asked for a path's digest
UseCacheNever(cache, abs_file_path) == FALSE

UseCache(cache, abs_file_path) == abs_file_path \in DOMAIN cache

\* a line stripped of the newline that ends it, where "$" matches
Chomp(line) ==
    IF line # <<>> /\ line[Len(line)] = "\n"
    THEN SubSeq(line, 1, Len(line) - 1) ELSE line

\* re.match(RE_LINE, line): ^(?P<hash>[0-9a-f]{16}) {2}(?P<path>.+)$
MatchLine(line) ==
    LET body == Chomp(line) IN
    /\ Len(body) > HashLen + 2
    /\ \A i \in 1..HashLen : body[i] \in HexChars
    /\ body[HashLen + 1] = " "
    /\ body[HashLen + 2] = " "
    /\ \A i \in (HashLen + 3)..Len(body) : body[i] # "\n"

\* match.group("hash")
GroupHash(line) == SubSeq(line, 1, HashLen)

\* match.group("path")
GroupPath(line) == Drop(Chomp(line), HashLen + 2)

\* the body of get_hashes_from_cache's loop, keeping the first digest seen
CacheStepFirstWins(file_dict, line) ==
    IF MatchLine(line) /\ AbsPath(GroupPath(line)) \notin DOMAIN file_dict
    THEN DictSet(file_dict, AbsPath(GroupPath(line)), GroupHash(line))
    ELSE file_dict

\* the body of get_hashes_from_cache's loop
CacheStep(file_dict, line) ==
    IF MatchLine(line)
    THEN DictSet(file_dict, AbsPath(GroupPath(line)), GroupHash(line))
    ELSE file_dict

\* standard_output's first loop: the digests with a path that starts with
\* the absolute form of the operand
RECURSIVE AnyStartsWith(_, _)
AnyStartsWith(paths, abs_path) ==
    IF paths = <<>> THEN FALSE
    ELSE StartsWith(Head(paths), abs_path) \/ AnyStartsWith(Tail(paths), abs_path)

HashesOfRaw(dict, path) ==
    {h \in DOMAIN dict : AnyStartsWith(dict[h], path)}

HashesOf(dict, path) ==
    {h \in DOMAIN dict : AnyStartsWith(dict[h], AbsPath(path))}

\* standard_output's second loop, the branch that fills common
CommonOf(dict, hash1, hash2) ==
    [h \in {x \in hash1 : x \in hash2} |-> dict[h]]

\* standard_output's second loop, the branch that fills exclusive1
Exclusive1Of(dict, hash1, hash2) ==
    [h \in {x \in hash1 : x \notin hash2} |-> dict[h]]

\* standard_output's third loop without its test
Exclusive2OfAll(dict, hash1, hash2) ==
    [h \in hash2 |-> dict[h]]

\* standard_output's third loop
Exclusive2Of(dict, hash1, hash2) ==
    [h \in {x \in hash2 : x \notin hash1} |-> dict[h]]

\* the summary with its first two sentences exchanged
SummarySwapped(path1, path2, exclusive1, exclusive2, common) ==
    IF DOMAIN exclusive1 # {} /\ DOMAIN exclusive2 = {}
    THEN <<"AllFilesIn", path1, "AreIn", path2>>
    ELSE IF DOMAIN exclusive2 # {} /\ DOMAIN exclusive1 = {}
    THEN <<"AllFilesIn", path2, "AreIn", path1>>
    ELSE IF DOMAIN exclusive1 = {} /\ DOMAIN exclusive2 = {}
    THEN <<"AllFilesIn", path1, "AreIn", path2, "AndViceVersa">>
    ELSE IF DOMAIN common # {}
    THEN <<"SomeFilesIn", path1, "AreNotIn", path2, "AndViceVersa">>
    ELSE <<"CompletelyDifferent", path1, path2>>

\* the summary with the test of common taken first
SummaryCommonFirst(path1, path2, exclusive1, exclusive2, common) ==
    IF DOMAIN common = {}
    THEN <<"CompletelyDifferent", path1, path2>>
    ELSE IF DOMAIN exclusive1 # {} /\ DOMAIN exclusive2 = {}
    THEN <<"AllFilesIn", path2, "AreIn", path1>>
    ELSE IF DOMAIN exclusive2 # {} /\ DOMAIN exclusive1 = {}
    THEN <<"AllFilesIn", path1, "AreIn", path2>>
    ELSE IF DOMAIN exclusive1 = {} /\ DOMAIN exclusive2 = {}
    THEN <<"AllFilesIn", path1, "AreIn", path2, "AndViceVersa">>
    ELSE <<"SomeFilesIn", path1, "AreNotIn", path2, "AndViceVersa">>

\* the sentence print_path_comparison ends with when is_verbose
Summary(path1, path2, exclusive1, exclusive2, common) ==
    IF DOMAIN exclusive1 # {} /\ DOMAIN exclusive2 = {}
    THEN <<"AllFilesIn", path2, "AreIn", path1>>
    ELSE IF DOMAIN exclusive2 # {} /\ DOMAIN exclusive1 = {}
    THEN <<"AllFilesIn", path1, "AreIn", path2>>
    ELSE IF DOMAIN exclusive1 = {} /\ DOMAIN exclusive2 = {}
    THEN <<"AllFilesIn", path1, "AreIn", path2, "AndViceVersa">>
    ELSE IF DOMAIN common # {}
    THEN <<"SomeFilesIn", path1, "AreNotIn", path2, "AndViceVersa">>
    ELSE <<"CompletelyDifferent", path1, path2>>

\* what print_path_comparison prints
print_path_comparison(path1, path2, exclusive1, exclusive2, common, is_verbose) ==
    [printed |-> TRUE, exclusive1 |-> exclusive1, exclusive2 |-> exclusive2,
     common |-> common,
     summary |-> IF is_verbose
                 THEN Summary(path1, path2, exclusive1, exclusive2, common)
                 ELSE <<>>]

\* xdiff.standard_output
xdiff_standard_output(dict, path1, path2, is_verbose) ==
    LET hash1 == HashesOf(dict, path1)
        hash2 == HashesOf(dict, path2)
    IN  print_path_comparison(path1, path2,
                              Exclusive1Of(dict, hash1, hash2),
                              Exclusive2Of(dict, hash1, hash2),
                              CommonOf(dict, hash1, hash2),
                              is_verbose)

(***************************************************************************)
(* The environment: another process changes the filesystem under the       *)
(* running command                                                         *)
(***************************************************************************)
\* the positions at which a command has still to look at the files; a change
\* made earlier (while the cache file is read) is seen as one made at the
\* first of them, a change made later is not seen at all
XdiffRunning == {"x_check", "x_files", "x_filehash", "x_dirs", "x_dirfiles",
                 "x_dirhash"}

HashRunning == {"h_paths", "h_open", "h_loop", "h_print"}

\* chmod a-r on a file or a directory
FsChmod ==
    /\ pc \in XdiffRunning \cup HashRunning
    /\ fs_changes < MaxFsChanges
    /\ \E n \in Files \cup Dirs :
         /\ fs[n].kind # "none"
         /\ fs[n].readable
         /\ fs' = [fs EXCEPT ![n].readable = FALSE]
    /\ fs_changes' = fs_changes + 1
    /\ UNCHANGED <<mf_lines, args, pc, cache_dict, ci, hash_dict, roots, todo,
                   cur, report, errors, exit_code, xxh_calls, xxh_failed,
                   traversed, hashed_files, files, stdout, run, mf_before>>

\* rm of a file
FsUnlink ==
    /\ pc \in XdiffRunning \cup HashRunning
    /\ fs_changes < MaxFsChanges
    /\ \E n \in Files :
         /\ fs[n].kind = "file"
         /\ fs' = [fs EXCEPT ![n] = Missing]
    /\ fs_changes' = fs_changes + 1
    /\ UNCHANGED <<mf_lines, args, pc, cache_dict, ci, hash_dict, roots, todo,
                   cur, report, errors, exit_code, xxh_calls, xxh_failed,
                   traversed, hashed_files, files, stdout, run, mf_before>>

\* a file replaced by a symbolic link to a file
FsSymlink ==
    /\ pc \in XdiffRunning \cup HashRunning
    /\ fs_changes < MaxFsChanges
    /\ \E n \in Files :
         /\ fs[n].kind = "file"
         /\ ~fs[n].link
         /\ fs' = [fs EXCEPT ![n].link = TRUE]
    /\ fs_changes' = fs_changes + 1
    /\ UNCHANGED <<mf_lines, args, pc, cache_dict, ci, hash_dict, roots, todo,
                   cur, report, errors, exit_code, xxh_calls, xxh_failed,
                   traversed, hashed_files, files, stdout, run, mf_before>>

(***************************************************************************)
(* xdiff.main, step by step                                                *)
(***************************************************************************)
\* get_hashes_from_cache up to its loop, or no cache file given
XdOpenCache ==
    /\ pc = "x_start"
    /\ IF args.cachefile = <<>>
       THEN /\ pc' = "x_check"
            /\ UNCHANGED <<errors, exit_code>>
       ELSE IF ~is_readable_file(args.cachefile)
       THEN /\ pc' = "aborted"
            /\ exit_code' = 1
            /\ errors' = Append(errors, <<"cache file", args.cachefile>>)
       ELSE /\ pc' = "x_cache"
            /\ UNCHANGED <<errors, exit_code>>
    /\ cache_dict' = EmptyDict
    /\ ci' = 0
    /\ UNCHANGED <<fs, mf_lines, fs_changes, args, hash_dict, roots, todo, cur,
                   report, xxh_calls, xxh_failed, traversed, hashed_files,
                   files, stdout, run, mf_before>>

\* one turn of get_hashes_from_cache's loop
XdReadLine ==
    /\ pc = "x_cache"
    /\ ci < Len(mf_lines)
    /\ cache_dict' = CacheStep(cache_dict, mf_lines[ci + 1])
    /\ ci' = ci + 1
    /\ UNCHANGED <<fs, mf_lines, fs_changes, args, pc, hash_dict, roots, todo,
                   cur, report, errors, exit_code, xxh_calls, xxh_failed,
                   traversed, hashed_files, files, stdout, run, mf_before>>

\* get_hashes_from_cache returns
XdCacheLoaded ==
    /\ pc = "x_cache"
    /\ ci = Len(mf_lines)
    /\ pc' = "x_check"
    /\ UNCHANGED <<fs, mf_lines, fs_changes, args, cache_dict, ci, hash_dict,
                   roots, todo, cur, report, errors, exit_code, xxh_calls,
                   xxh_failed, traversed, hashed_files, files, stdout, run,
                   mf_before>>

\* main's test of the two operands
XdCheckOperands ==
    /\ pc = "x_check"
    /\ IF is_readable_file(args.path1) /\ is_readable_file(args.path2)
       THEN /\ pc' = "x_files"
            /\ roots' = <<args.path1, args.path2>>
            /\ UNCHANGED <<errors, exit_code>>
       ELSE IF is_readable_dir(args.path1) /\ is_readable_dir(args.path2)
       THEN /\ pc' = "x_dirs"
            /\ roots' = <<args.path1, args.path2>>
            /\ UNCHANGED <<errors, exit_code>>
       ELSE /\ pc' = "aborted"
            /\ exit_code' = 1
            /\ errors' = Append(errors, <<"same type", args.path1, args.path2>>)
            /\ UNCHANGED roots
    /\ UNCHANGED <<fs, mf_lines, fs_changes, args, cache_dict, ci, hash_dict,
                   todo, cur, report, xxh_calls, xxh_failed, traversed,
                   hashed_files, files, stdout, run, mf_before>>

\* files_hash_dict: the readability test of the next file
XdFilesCheck ==
    /\ pc = "x_files"
    /\ roots # <<>>
    /\ IF ~is_readable_file(Head(roots))
       THEN /\ pc' = "aborted"
            /\ exit_code' = 1
            /\ errors' = Append(errors, <<"compute_hash_dict", Head(roots)>>)
            /\ UNCHANGED cur
       ELSE /\ pc' = "x_filehash"
            /\ cur' = Head(roots)
            /\ UNCHANGED <<errors, exit_code>>
    /\ UNCHANGED <<fs, mf_lines, fs_changes, args, cache_dict, ci, hash_dict,
                   roots, todo, report, xxh_calls, xxh_failed, traversed,
                   hashed_files, files, stdout, run, mf_before>>

\* files_hash_dict: the digest of the file, from the cache or from fu.xxh,
\* appended to the index
XdFilesHash ==
    /\ pc = "x_filehash"
    /\ LET abs_file_path == AbsPath(cur)
           cached == UseCache(cache_dict, abs_file_path)
           xhh_hash == IF cached THEN cache_dict[abs_file_path]
                       ELSE xxh(abs_file_path)
       IN  /\ hash_dict' = append_to_list_dict(hash_dict, xhh_hash, abs_file_path)
           /\ xxh_calls' = IF cached THEN xxh_calls
                           ELSE xxh_calls \cup {abs_file_path}
           /\ xxh_failed' = IF ~cached /\ xhh_hash = <<>>
                            THEN xxh_failed \cup {abs_file_path}
                            ELSE xxh_failed
           /\ errors' = IF cached THEN errors
                        ELSE errors \o XxhErrors(abs_file_path)
    /\ roots' = Tail(roots)
    /\ pc' = IF Tail(roots) = <<>> THEN "x_output" ELSE "x_files"
    /\ UNCHANGED <<fs, mf_lines, fs_changes, args, cache_dict, ci, todo, cur,
                   report, exit_code, traversed, hashed_files, files, stdout,
                   run, mf_before>>

\* dirs_hash_dict: the test of the next directory, and the walk of it
XdDirsWalk ==
    /\ pc = "x_dirs"
    /\ roots # <<>>
    /\ IF ~is_readable_dir(Head(roots))
       THEN /\ pc' = "aborted"
            /\ exit_code' = 1
            /\ errors' = Append(errors, <<"compute_hash_dict", Head(roots)>>)
            /\ UNCHANGED <<todo, traversed, roots>>
       ELSE /\ pc' = "x_dirfiles"
            /\ todo' = all_files_in_directory(Head(roots), args.recursive)
            /\ traversed' = traversed \cup {Head(roots)}
            /\ roots' = Tail(roots)
            /\ UNCHANGED <<errors, exit_code>>
    /\ UNCHANGED <<fs, mf_lines, fs_changes, args, cache_dict, ci, hash_dict,
                   cur, report, xxh_calls, xxh_failed, hashed_files, files,
                   stdout, run, mf_before>>

\* dirs_hash_dict: the readability test of the next file of the walk
XdDirsCheckFile ==
    /\ pc = "x_dirfiles"
    /\ \E f \in todo :
         /\ todo' = todo \ {f}
         /\ IF ~is_readable_file(f)
            THEN /\ errors' = Append(errors, <<"compute_hash_dict", f>>)
                 /\ UNCHANGED <<pc, cur>>
            ELSE /\ pc' = "x_dirhash"
                 /\ cur' = f
                 /\ UNCHANGED errors
    /\ UNCHANGED <<fs, mf_lines, fs_changes, args, cache_dict, ci, hash_dict,
                   roots, report, exit_code, xxh_calls, xxh_failed, traversed,
                   hashed_files, files, stdout, run, mf_before>>

\* dirs_hash_dict: the digest of the file, from the cache or from fu.xxh,
\* added to the index
XdDirsHashFile ==
    /\ pc = "x_dirhash"
    /\ LET abs_file_path == AbsPath(cur)
           cached == UseCache(cache_dict, abs_file_path)
           xhh_hash == IF cached THEN cache_dict[abs_file_path]
                       ELSE xxh(abs_file_path)
       IN  /\ hash_dict' = add_to_list_dict(hash_dict, xhh_hash, abs_file_path)
           /\ xxh_calls' = IF cached THEN xxh_calls
                           ELSE xxh_calls \cup {abs_file_path}
           /\ xxh_failed' = IF ~cached /\ xhh_hash = <<>>
                            THEN xxh_failed \cup {abs_file_path}
                            ELSE xxh_failed
           /\ errors' = IF cached THEN errors
                        ELSE errors \o XxhErrors(abs_file_path)
    /\ pc' = "x_dirfiles"
    /\ UNCHANGED <<fs, mf_lines, fs_changes, args, cache_dict, ci, roots, todo,
                   cur, report, exit_code, traversed, hashed_files, files,
                   stdout, run, mf_before>>

\* dirs_hash_dict: the walk of a directory is used up
XdDirsNext ==
    /\ pc = "x_dirfiles"
    /\ todo = {}
    /\ pc' = IF roots = <<>> THEN "x_output" ELSE "x_dirs"
    /\ UNCHANGED <<fs, mf_lines, fs_changes, args, cache_dict, ci, hash_dict,
                   roots, todo, cur, report, errors, exit_code, xxh_calls,
                   xxh_failed, traversed, hashed_files, files, stdout, run,
                   mf_before>>

\* standard_output and the report it prints
XdStandardOutput ==
    /\ pc = "x_output"
    /\ report' = xdiff_standard_output(hash_dict, args.path1, args.path2,
                                       args.verbose)
    /\ pc' = "done"
    /\ UNCHANGED <<fs, mf_lines, fs_changes, args, cache_dict, ci, hash_dict,
                   roots, todo, cur, errors, exit_code, xxh_calls, xxh_failed,
                   traversed, hashed_files, files, stdout, run, mf_before>>

(***************************************************************************)
(* Initial states                                                          *)
(***************************************************************************)
\* the contents a file may hold
Contents == 1..Len(HexOfContent)

\* a file holding content c; no file when c = 0
FileRec(c) ==
    IF c = 0 THEN Missing
    ELSE [kind |-> "file", link |-> FALSE, readable |-> TRUE,
          writable |-> TRUE, content |-> c]

DirRec == [kind |-> "dir", link |-> FALSE, readable |-> TRUE,
           writable |-> TRUE, content |-> 0]

MakeFs(cx, cz, cy, cv, manifest) ==
    [n \in Nodes |->
        IF n = FX THEN FileRec(cx)
        ELSE IF n = FZ THEN FileRec(cz)
        ELSE IF n = FY THEN FileRec(cy)
        ELSE IF n = FV THEN FileRec(cv)
        ELSE IF n = MF THEN manifest
        ELSE DirRec]

\* the line xxh.file_output writes for a digest and a path
Line(digest, path) == digest \o <<" ", " ">> \o path \o <<"\n">>

\* a digest no content of the model has
StaleDigest == [i \in 1..HashLen |-> "c"]

\* the operands: relative and absolute spellings of the directories and the
\* files, a directory with a trailing slash, the link /w/l and the missing /w/q
OpA == <<"a">>
OpASlash == <<"a", "/">>
OpB == <<"b">>
OpS == <<"a", "/", "s">>
OpX == <<"a", "/", "s", "x">>
OpY == <<"b", "/", "y">>
OpL == <<"l">>
OpQ == <<"q">>
OpM == <<"m">>

\* the pairs of operands taken: two directories apart, one
\* directory under two spellings, a directory and the one that holds it (with
\* the file /w/a/sx beside it), two files, one file twice, a file and a
\* directory, a link to a directory, a missing path
XdiffPairs ==
    {<<OpA, OpB>>, <<OpB, OpS>>, <<DirA, OpASlash>>, <<OpS, OpA>>,
     <<OpX, FY>>, <<OpX, OpX>>, <<OpX, OpB>>, <<OpL, OpB>>, <<OpB, OpQ>>}

\* a cache file: /w/a/sx with the digest of content 1, /w/a/s/z with a digest
\* its content never has, /w/b/y under a relative spelling
CacheLines == <<Line(Digest(1), FX), Line(StaleDigest, FZ), Line(Digest(2), OpY)>>

\* the flags taken: -r -v, -v, -r
XdiffFlags ==
    {[recursive |-> TRUE, verbose |-> TRUE],
     [recursive |-> FALSE, verbose |-> TRUE],
     [recursive |-> TRUE, verbose |-> FALSE]}

\* no --cachefile; --cachefile m with no file m; --cachefile m with CacheLines
CacheChoices ==
    {[cachefile |-> <<>>, manifest |-> Missing, lines |-> <<>>],
     [cachefile |-> OpM, manifest |-> Missing, lines |-> <<>>],
     [cachefile |-> OpM, manifest |-> FileRec(1), lines |-> CacheLines]}

\* what no command has touched yet
Idle ==
    /\ fs_changes = 0
    /\ cache_dict = EmptyDict
    /\ ci = 0
    /\ hash_dict = EmptyDict
    /\ roots = <<>>
    /\ todo = {}
    /\ cur = <<>>
    /\ report = NoReport
    /\ errors = <<>>
    /\ exit_code = 0
    /\ xxh_calls = {}
    /\ xxh_failed = {}
    /\ traversed = {}
    /\ hashed_files = {}
    /\ files = {}
    /\ stdout = <<>>
    /\ run = 0
    /\ mf_before = <<>>

\* xdiff path1 path2 [-c m] [-r] [-v], started in some filesystem
Init ==
    /\ \E cx \in {0} \cup Contents, cz \in {0, 1},
          cy \in {0, 1}, cv \in {0, 2}, c \in CacheChoices,
          p \in XdiffPairs, f \in XdiffFlags :
         /\ fs = MakeFs(cx, cz, cy, cv, c.manifest)
         /\ mf_lines = c.lines
         /\ args = [cmd |-> "xdiff", path1 |-> p[1], path2 |-> p[2],
                    cachefile |-> c.cachefile, recursive |-> f.recursive,
                    verbose |-> f.verbose]
    /\ pc = "x_start"
    /\ Idle

Next ==
    \/ FsChmod
    \/ FsUnlink
    \/ FsSymlink
    \/ XdOpenCache
    \/ XdReadLine
    \/ XdCacheLoaded
    \/ XdCheckOperands
    \/ XdFilesCheck
    \/ XdFilesHash
    \/ XdDirsWalk
    \/ XdDirsCheckFile
    \/ XdDirsHashFile
    \/ XdDirsNext
    \/ XdStandardOutput

Spec == Init /\ [][Next]_vars

(***************************************************************************)
(* The comparison report (Spec)                                            *)
(***************************************************************************)
\* root is a string prefix of path
IsStringPrefix(root, path) ==
    /\ Len(root) <= Len(path)
    /\ \A k \in 1..Len(root) : path[k] = root[k]

\* the digests of the index with at least one path that has the absolute form
\* of root as a string prefix
HashesUnder(root) ==
    {h \in DOMAIN hash_dict :
        \E i \in 1..Len(hash_dict[h]) : IsStringPrefix(AbsPath(root), hash_dict[h][i])}

HashesA == HashesUnder(args.path1)
HashesB == HashesUnder(args.path2)

\* C1: the digests of the three reported groups, exclusive1, exclusive2 and
\* common, are pairwise disjoint, and together they are the digests under the
\* first root and those under the second.
C1_PartitionLaw ==
    report.printed =>
        LET e1 == DOMAIN report.exclusive1
            e2 == DOMAIN report.exclusive2
            c == DOMAIN report.common
        IN  /\ e1 \cap e2 = {}
            /\ e1 \cap c = {}
            /\ e2 \cap c = {}
            /\ e1 \cup e2 \cup c = HashesA \cup HashesB

\* a report with a digest in each of the three groups
C1_Witness ==
    /\ report.printed
    /\ DOMAIN report.exclusive1 # {}
    /\ DOMAIN report.exclusive2 # {}
    /\ DOMAIN report.common # {}

\* C2: common holds the digests under both roots, exclusive1 those under the
\* first root only, exclusive2 those under the second only, a digest being
\* under a root when one of its paths has the root's absolute form as a string
\* prefix; and each reported digest is listed with all its paths of the index.
C2_Classification ==
    report.printed =>
        /\ DOMAIN report.common = HashesA \cap HashesB
        /\ DOMAIN report.exclusive1 = HashesA \ HashesB
        /\ DOMAIN report.exclusive2 = HashesB \ HashesA
        /\ \A h \in DOMAIN report.common : report.common[h] = hash_dict[h]
        /\ \A h \in DOMAIN report.exclusive1 : report.exclusive1[h] = hash_dict[h]
        /\ \A h \in DOMAIN report.exclusive2 : report.exclusive2[h] = hash_dict[h]

\* a report, for a relative first operand, of a common digest listed with a
\* path under the first root and with a path that is not under it
C2_Witness ==
    /\ report.printed
    /\ ~IsAbs(args.path1)
    /\ \E h \in DOMAIN report.common :
          /\ \E i \in 1..Len(report.common[h]) :
                IsStringPrefix(AbsPath(args.path1), report.common[h][i])
          /\ \E i \in 1..Len(report.common[h]) :
                ~IsStringPrefix(AbsPath(args.path1), report.common[h][i])

\* the sentences of the summary
AllIn(x, y) == <<"AllFilesIn", x, "AreIn", y>>
AllInBoth(x, y) == <<"AllFilesIn", x, "AreIn", y, "AndViceVersa">>
SomeDiffer(x, y) == <<"SomeFilesIn", x, "AreNotIn", y, "AndViceVersa">>
Different(x, y) == <<"CompletelyDifferent", x, y>>

NoExclusiveA == DOMAIN report.exclusive1 = {}
NoExclusiveB == DOMAIN report.exclusive2 = {}
NoCommon == DOMAIN report.common = {}

\* C3, as amended: in verbose mode the summary is 'all files in A are in B and
\* vice versa' when both exclusive sets are empty, 'all files in B are in A'
\* when only exclusiveA is non-empty, 'all files in A are in B' when only
\* exclusiveB is non-empty, 'some files differ both ways' when common and both
\* exclusive sets are non-empty, and 'completely different' when common is
\* empty and both exclusive sets are non-empty (A = path1, B = path2).
C3_SummaryMapping ==
    (report.printed /\ args.verbose) =>
        LET A == args.path1
            B == args.path2
        IN  /\ (NoExclusiveA /\ NoExclusiveB) => report.summary = AllInBoth(A, B)
            /\ (~NoExclusiveA /\ NoExclusiveB) => report.summary = AllIn(B, A)
            /\ (NoExclusiveA /\ ~NoExclusiveB) => report.summary = AllIn(A, B)
            /\ (~NoCommon /\ ~NoExclusiveA /\ ~NoExclusiveB)
                  => report.summary = SomeDiffer(A, B)
            /\ (NoCommon /\ ~NoExclusiveA /\ ~NoExclusiveB)
                  => report.summary = Different(A, B)

\* a verbose report of two different roots with digests exclusive to the first
\* root and none exclusive to the second, and nothing in common
C3_Witness ==
    /\ report.printed
    /\ args.verbose
    /\ args.path1 # args.path2
    /\ ~NoExclusiveA
    /\ NoExclusiveB
    /\ NoCommon

\* C3 as the specification states it: only exclusiveB non-empty gives 'all
\* files in B are in A', only exclusiveA non-empty gives 'all files in A are
\* in B', and an empty common gives 'completely different'.
C3_AsStated ==
    (report.printed /\ args.verbose) =>
        LET A == args.path1
            B == args.path2
        IN  /\ (NoExclusiveA /\ NoExclusiveB) => report.summary = AllInBoth(A, B)
            /\ (NoExclusiveA /\ ~NoExclusiveB) => report.summary = AllIn(B, A)
            /\ (~NoExclusiveA /\ NoExclusiveB) => report.summary = AllIn(A, B)
            /\ (~NoCommon /\ ~NoExclusiveA /\ ~NoExclusiveB)
                  => report.summary = SomeDiffer(A, B)
            /\ NoCommon => report.summary = Different(A, B)

\* the five conditions, the fifth as amended, and the sentence of each
Condition(i) ==
    CASE i = 1 -> NoExclusiveA /\ NoExclusiveB
      [] i = 2 -> NoExclusiveA /\ ~NoExclusiveB
      [] i = 3 -> ~NoExclusiveA /\ NoExclusiveB
      [] i = 4 -> ~NoCommon /\ ~NoExclusiveA /\ ~NoExclusiveB
      [] i = 5 -> NoCommon /\ ~NoExclusiveA /\ ~NoExclusiveB

Sentence(i) ==
    CASE i = 1 -> AllInBoth(args.path1, args.path2)
      [] i = 2 -> AllIn(args.path1, args.path2)
      [] i = 3 -> AllIn(args.path2, args.path1)
      [] i = 4 -> SomeDiffer(args.path1, args.path2)
      [] i = 5 -> Different(args.path1, args.path2)

\* the five conditions and their sentences as the specification states them
StatedCondition(i) ==
    CASE i = 1 -> NoExclusiveA /\ NoExclusiveB
      [] i = 2 -> NoExclusiveA /\ ~NoExclusiveB
      [] i = 3 -> ~NoExclusiveA /\ NoExclusiveB
      [] i = 4 -> ~NoCommon /\ ~NoExclusiveA /\ ~NoExclusiveB
      [] i = 5 -> NoCommon

StatedSentence(i) ==
    CASE i = 1 -> AllInBoth(args.path1, args.path2)
      [] i = 2 -> AllIn(args.path2, args.path1)
      [] i = 3 -> AllIn(args.path1, args.path2)
      [] i = 4 -> SomeDiffer(args.path1, args.path2)
      [] i = 5 -> Different(args.path1, args.path2)

\* C4, as amended: of the five conditions (both exclusive sets empty; only
\* exclusiveB non-empty; only exclusiveA non-empty; common and both exclusive
\* sets non-empty; common empty and both exclusive sets non-empty) exactly one
\* holds of every report, and the summary printed is the sentence of that one
\* (the sentences as amended in C3).
C4_ExactlyOneCondition ==
    (report.printed /\ args.verbose) =>
        /\ Cardinality({i \in 1..5 : Condition(i)}) = 1
        /\ \A i \in 1..5 : Condition(i) => report.summary = Sentence(i)

\* a verbose report with nothing in common and nothing exclusive to the second
\* root, where 'common empty' holds together with another stated condition
C4_Witness ==
    /\ report.printed
    /\ args.verbose
    /\ NoCommon
    /\ NoExclusiveB

\* C4 as the specification states it, the fifth condition being 'common empty'
C4_AsStated ==
    (report.printed /\ args.verbose) =>
        /\ Cardinality({i \in 1..5 : StatedCondition(i)}) = 1
        /\ \A i \in 1..5 : StatedCondition(i) => report.summary = StatedSentence(i)

(***************************************************************************)
(* The cache during a comparison, and main's test of the operands (Spec)   *)
(***************************************************************************)
\* the positions of get_hashes_from_cache
CacheLoading == {"x_start", "x_cache"}

\* C8: at every step of a comparison, no path that is a key of the cache has
\* been handed to the Hasher (fu.xxh), every path of the index that is a key of
\* the cache stands under its cached digest, and once the cache is loaded no
\* step changes it.
C8_CacheFrame ==
    [][/\ xxh_calls' \cap DOMAIN cache_dict' = {}
       /\ \A h \in DOMAIN hash_dict' :
             \A i \in 1..Len(hash_dict'[h]) :
                 hash_dict'[h][i] \in DOMAIN cache_dict'
                     => h = cache_dict'[hash_dict'[h][i]]
       /\ pc \notin CacheLoading => cache_dict' = cache_dict]_vars

\* an index that holds a cached path under a cached digest that is not the one
\* the Hasher would compute, beside a path the Hasher was called for
C8_Witness ==
    /\ pc = "done"
    /\ xxh_calls # {}
    /\ \E h \in DOMAIN hash_dict :
          \E i \in 1..Len(hash_dict[h]) :
              /\ hash_dict[h][i] \in DOMAIN cache_dict
              /\ h # xxh(hash_dict[h][i])

\* a readable regular file that is not a symbolic link
IsRegularFile(p) ==
    Stat(p).kind = "file" /\ Stat(p).readable /\ ~Stat(p).link

\* a readable directory that is not a symbolic link
IsDirectory(p) ==
    Stat(p).kind = "dir" /\ Stat(p).readable /\ ~Stat(p).link

\* C10: when main tests its operands, it goes on to build an index only if
\* both are readable regular files or both are readable directories, neither
\* a symbolic link; for any other pair it prints a diagnostic and exits with a
\* non-zero status, having traversed no root, built no index and printed no
\* report; and no step follows an abort.
C10_OperandGuard ==
    [][/\ (pc = "x_check" /\ pc' # "x_check") =>
            IF \/ IsRegularFile(args.path1) /\ IsRegularFile(args.path2)
               \/ IsDirectory(args.path1) /\ IsDirectory(args.path2)
            THEN pc' \in {"x_files", "x_dirs"}
            ELSE /\ pc' = "aborted"
                 /\ exit_code' # 0
                 /\ Len(errors') = Len(errors) + 1
                 /\ traversed' = {}
                 /\ xxh_calls' = {}
                 /\ hash_dict' = EmptyDict
                 /\ report' = NoReport
       /\ pc # "aborted"]_vars

\* main has aborted on a first operand that is a symbolic link to a readable
\* directory, the second being a readable directory
C10_Witness ==
    /\ pc = "aborted"
    /\ exit_code = 1
    /\ errors = << <<"same type", args.path1, args.path2>> >>
    /\ Stat(args.path1).link
    /\ Stat(args.path1).kind = "dir"
    /\ Stat(args.path1).readable
    /\ IsDirectory(args.path2)

(***************************************************************************)
(* Loading the cache file (SpecCache)                                      *)
(***************************************************************************)
\* sixteen times the same character
Sixteen(ch) == [i \in 1..HashLen |-> ch]

\* the lines a cache file is made of: /w/a/sx with two digests, the same file
\* under a relative spelling, another file, a path that starts with a space;
\* then lines that are not records: an upper-case digest, a digest one digit
\* short, one space for two, a tab for the spaces, no path
CacheFileLines ==
    {Line(Digest(1), FX),
     Line(Digest(2), FX),
     Line(StaleDigest, OpX),
     Line(Digest(1), FY),
     Line(Digest(2), <<" ">> \o FX),
     Line(Sixteen("A"), FX),
     Line(SubSeq(Digest(2), 2, HashLen), FX),
     Digest(2) \o <<" ">> \o FX \o <<"\n">>,
     Digest(2) \o <<"\t">> \o FX \o <<"\n">>,
     Line(Digest(2), <<>>)}

\* a last line that no newline ends
UnendedLines == {Digest(2) \o <<" ", " ">> \o FX}

\* the cache files of at most MaxLines lines
CacheFiles ==
    UNION {{body \o tail :
               body \in [1..n -> CacheFileLines],
               tail \in {<<>>} \cup {<<l>> : l \in IF n < MaxLines THEN UnendedLines ELSE {}}} :
           n \in 0..MaxLines}

\* xdiff a b -c m, with m any of the cache files, or missing
InitCache ==
    /\ \E lines \in CacheFiles, manifest \in {Missing, FileRec(1)} :
         /\ fs = MakeFs(1, 1, 1, 2, manifest)
         /\ mf_lines = IF manifest = Missing THEN <<>> ELSE lines
    /\ args = [cmd |-> "xdiff", path1 |-> OpA, path2 |-> OpB,
               cachefile |-> OpM, recursive |-> TRUE, verbose |-> TRUE]
    /\ pc = "x_start"
    /\ Idle

NextCache ==
    \/ XdOpenCache
    \/ XdReadLine
    \/ XdCacheLoaded

SpecCache == InitCache /\ [][NextCache]_vars

\* a line without the newline that ends it
Body(line) ==
    IF line # <<>> /\ line[Len(line)] = "\n"
    THEN SubSeq(line, 1, Len(line) - 1) ELSE line

\* a record: sixteen lower-case hex characters, two spaces, a non-empty path
WellFormed(line) ==
    /\ Len(Body(line)) >= HashLen + 3
    /\ \A i \in 1..HashLen : Body(line)[i] \in HexChars
    /\ SubSeq(Body(line), HashLen + 1, HashLen + 2) = <<" ", " ">>

\* the absolute path a record names, and its digest
RecordPath(line) == AbsPath(SubSeq(Body(line), HashLen + 3, Len(Body(line))))
RecordDigest(line) == SubSeq(Body(line), 1, HashLen)

\* the records among the first n lines that name path
RecordsOf(path, n) ==
    {i \in 1..n : WellFormed(mf_lines[i]) /\ RecordPath(mf_lines[i]) = path}

\* the greatest element of a non-empty set of numbers
Greatest(S) == CHOOSE i \in S : \A j \in S : j <= i

\* C9: after any number of lines of the cache file, the cache maps exactly the
\* absolute paths that a well-formed line read so far names, each to the digest
\* of the last such line; so a line that is not well-formed adds nothing and
\* changes no path's digest, and a later record of a path overrides an earlier.
C9_LastSeenWins ==
    (pc \in {"x_cache", "x_check"}) =>
        /\ DOMAIN cache_dict =
              {RecordPath(mf_lines[i]) :
                  i \in {j \in 1..ci : WellFormed(mf_lines[j])}}
        /\ \A path \in DOMAIN cache_dict :
              cache_dict[path] = RecordDigest(mf_lines[Greatest(RecordsOf(path, ci))])

\* a loaded cache file in which two records name /w/a/sx with different
\* digests, under different spellings, and a line that is no record follows
C9_Witness ==
    /\ pc = "x_check"
    /\ Len(mf_lines) >= 3
    /\ WellFormed(mf_lines[1])
    /\ WellFormed(mf_lines[2])
    /\ RecordPath(mf_lines[1]) = FX
    /\ RecordPath(mf_lines[2]) = FX
    /\ mf_lines[1] # mf_lines[2]
    /\ RecordDigest(mf_lines[1]) # RecordDigest(mf_lines[2])
    /\ ~WellFormed(mf_lines[3])
    /\ cache_dict[FX] = RecordDigest(mf_lines[2])

(***************************************************************************)
(* xxh.py: the hashing command                                             *)
(***************************************************************************)
\* re.match(RE_HASH, line): ^[0-9a-f]{16}, then two spaces
MatchHash(line) ==
    /\ Len(line) >= HashLen + 2
    /\ \A i \in 1..HashLen : line[i] \in HexChars
    /\ line[HashLen + 1] = " "
    /\ line[HashLen + 2] = " "

\* xxh.previously_hashed_files, the file being the manifest /w/m
previously_hashed_files(file_name) ==
    IF is_readable_file(file_name)
    THEN {Strip(Drop(mf_lines[i], HashLen)) :
             i \in {j \in 1..Len(mf_lines) : MatchHash(mf_lines[j])}}
    ELSE {}

\* one turn of paths_info's loop: the files one operand adds
PathFiles(path, exclude_set, is_recursive) ==
    IF ~is_readable_path(path) THEN {}
    ELSE IF isfile(path) THEN {path}
    ELSE {file \in all_files_in_directory(path, is_recursive) :
             is_readable_file(file) /\ file \notin exclude_set}

\* paths_info(...)["files"]
RECURSIVE paths_info(_, _, _)
paths_info(paths, exclude_set, is_recursive) ==
    IF paths = <<>> THEN {}
    ELSE PathFiles(Head(paths), exclude_set, is_recursive)
         \cup paths_info(Tail(paths), exclude_set, is_recursive)

\* the diagnostics paths_info prints
RECURSIVE PathsInfoErrors(_)
PathsInfoErrors(paths) ==
    IF paths = <<>> THEN <<>>
    ELSE (IF ~is_readable_path(Head(paths))
          THEN << <<"paths_info", Head(paths)>> >> ELSE <<>>)
         \o PathsInfoErrors(Tail(paths))

\* the mode file_output would open the manifest in, were it always "w"
OpenModeTruncate(fileoutput_name) == "w"

\* the mode file_output opens the manifest in
OpenMode(fileoutput_name) == IF exists(fileoutput_name) THEN "a" ELSE "w"

\* file_handler.write(text) on a file opened for append: the text goes after
\* the last character, so it continues a last line that no newline ends
FileAppend(lines, text) ==
    IF lines # <<>> /\ lines[Len(lines)][Len(lines[Len(lines)])] # "\n"
    THEN [lines EXCEPT ![Len(lines)] = @ \o text]
    ELSE Append(lines, text)

\* whether file_output leaves a file out because the manifest records it
AlreadyHashed(file, hashed) == file \in hashed

\* file_output and standard_output begin: the manifest's records are read
HStart ==
    /\ pc = "h_start"
    /\ hashed_files' = IF args.fileoutput = <<>> THEN {}
                       ELSE previously_hashed_files(args.fileoutput)
    /\ mf_before' = mf_lines
    /\ pc' = "h_paths"
    /\ UNCHANGED <<fs, mf_lines, fs_changes, args, cache_dict, ci, hash_dict,
                   roots, todo, cur, report, errors, exit_code, xxh_calls,
                   xxh_failed, traversed, files, stdout, run>>

\* fu.paths_info
HPathsInfo ==
    /\ pc = "h_paths"
    /\ files' = paths_info(args.path, hashed_files, args.recursive)
    /\ errors' = errors \o PathsInfoErrors(args.path)
    /\ traversed' = traversed \cup
                    {args.path[i] : i \in {j \in 1..Len(args.path) :
                        is_readable_path(args.path[j]) /\ ~isfile(args.path[j])}}
    /\ pc' = IF args.fileoutput = <<>> THEN "h_print" ELSE "h_open"
    /\ UNCHANGED <<fs, mf_lines, fs_changes, args, cache_dict, ci, hash_dict,
                   roots, todo, cur, report, exit_code, xxh_calls, xxh_failed,
                   hashed_files, stdout, run, mf_before>>

\* file_output: the manifest is tested and opened
HOpen ==
    /\ pc = "h_open"
    /\ IF exists(args.fileoutput) /\ ~is_appendable_file(args.fileoutput)
       THEN /\ pc' = "aborted"
            /\ exit_code' = 1
            /\ errors' = Append(errors, <<"file_output", args.fileoutput>>)
            /\ UNCHANGED <<fs, mf_lines>>
       ELSE /\ pc' = "h_loop"
            /\ IF OpenMode(args.fileoutput) = "w"
               THEN /\ fs' = [fs EXCEPT ![MF] = FileRec(1)]
                    /\ mf_lines' = <<>>
               ELSE UNCHANGED <<fs, mf_lines>>
            /\ UNCHANGED <<errors, exit_code>>
    /\ UNCHANGED <<fs_changes, args, cache_dict, ci, hash_dict, roots, todo, cur,
                   report, xxh_calls, xxh_failed, traversed, hashed_files, files,
                   stdout, run, mf_before>>

\* file_output: one turn of the loop over the files; os.path.getsize raises
\* for a file that is gone
HWriteNext ==
    /\ pc = "h_loop"
    /\ \E file \in files :
         /\ files' = files \ {file}
         /\ IF ~exists(file)
            THEN /\ pc' = "crashed"
                 /\ exit_code' = 1
                 /\ UNCHANGED <<mf_lines, errors, xxh_calls, xxh_failed>>
            ELSE IF AlreadyHashed(file, hashed_files)
            THEN UNCHANGED <<pc, exit_code, mf_lines, errors, xxh_calls, xxh_failed>>
            ELSE /\ mf_lines' = FileAppend(mf_lines, Line(xxh(file), AbsPath(file)))
                 /\ xxh_calls' = xxh_calls \cup {file}
                 /\ xxh_failed' = IF xxh(file) = <<>> THEN xxh_failed \cup {file}
                                  ELSE xxh_failed
                 /\ errors' = errors \o XxhErrors(file)
                 /\ UNCHANGED <<pc, exit_code>>
    /\ UNCHANGED <<fs, fs_changes, args, cache_dict, ci, hash_dict, roots, todo,
                   cur, report, traversed, hashed_files, stdout, run, mf_before>>

\* file_output: the loop is over and the manifest closed
HWriteDone ==
    /\ pc = "h_loop"
    /\ files = {}
    /\ pc' = "h_done"
    /\ UNCHANGED <<fs, mf_lines, fs_changes, args, cache_dict, ci, hash_dict,
                   roots, todo, cur, report, errors, exit_code, xxh_calls,
                   xxh_failed, traversed, hashed_files, files, stdout, run,
                   mf_before>>

\* xxh.standard_output: one turn of the loop over the files
HPrintNext ==
    /\ pc = "h_print"
    /\ \E file \in files :
         /\ files' = files \ {file}
         /\ IF ~exists(file)
            THEN /\ pc' = "crashed"
                 /\ exit_code' = 1
                 /\ UNCHANGED <<stdout, errors, xxh_calls, xxh_failed>>
            ELSE /\ stdout' = Append(stdout, <<xxh(file), file>>)
                 /\ xxh_calls' = xxh_calls \cup {file}
                 /\ xxh_failed' = IF xxh(file) = <<>> THEN xxh_failed \cup {file}
                                  ELSE xxh_failed
                 /\ errors' = errors \o XxhErrors(file)
                 /\ UNCHANGED <<pc, exit_code>>
    /\ UNCHANGED <<fs, mf_lines, fs_changes, args, cache_dict, ci, hash_dict,
                   roots, todo, cur, report, traversed, hashed_files, run,
                   mf_before>>

\* xxh.standard_output: the loop is over
HPrintDone ==
    /\ pc = "h_print"
    /\ files = {}
    /\ pc' = "h_done"
    /\ UNCHANGED <<fs, mf_lines, fs_changes, args, cache_dict, ci, hash_dict,
                   roots, todo, cur, report, errors, exit_code, xxh_calls,
                   xxh_failed, traversed, hashed_files, files, stdout, run,
                   mf_before>>

\* the same command line is run again, with the manifest the last run left
HAgain ==
    /\ args.cmd = "xxh"
    /\ args.fileoutput # <<>>
    /\ pc \in {"h_done", "aborted", "crashed"}
    /\ run < MaxRuns
    /\ run' = run + 1
    /\ pc' = "h_start"
    /\ hashed_files' = {}
    /\ files' = {}
    /\ errors' = <<>>
    /\ exit_code' = 0
    /\ xxh_calls' = {}
    /\ xxh_failed' = {}
    /\ traversed' = {}
    /\ UNCHANGED <<fs, mf_lines, fs_changes, args, cache_dict, ci, hash_dict,
                   roots, todo, cur, report, stdout, mf_before>>

\* the operand lists taken: a directory spelled absolute and relative, a
\* directory and one inside it, one directory under two spellings, a file
\* spelled absolute and relative, one file twice, a directory and a missing
\* path, a link to a directory
HashOperands ==
    {<<DirA>>, <<OpA>>, <<DirA, DirS>>, <<OpA, DirA>>, <<FX>>, <<OpX>>,
     <<FX, FX>>, <<DirB, OpQ>>, <<OpL>>}

\* a manifest that is a symbolic link, one that cannot be written
LinkedFile == [FileRec(1) EXCEPT !.link = TRUE]
ReadOnlyFile == [FileRec(1) EXCEPT !.writable = FALSE]

\* lines an earlier run left in the manifest: a record of /w/a/s/z with a
\* digest, and a line that is no record
OldLines == <<Line(StaleDigest, FZ), <<"#", "\n">> >>

\* the same, the last line without the newline that ends it
UnendedOldLines == <<Line(StaleDigest, FZ), <<"#">> >>

\* no -f; -f m with no file m, with an empty m, with a m of earlier lines,
\* with a m whose last line is not ended, with a m that is a link, with a m
\* that cannot be written
OutputChoices ==
    {[fileoutput |-> <<>>, manifest |-> Missing, lines |-> <<>>],
     [fileoutput |-> OpM, manifest |-> Missing, lines |-> <<>>],
     [fileoutput |-> OpM, manifest |-> FileRec(1), lines |-> <<>>],
     [fileoutput |-> OpM, manifest |-> FileRec(1), lines |-> OldLines],
     [fileoutput |-> OpM, manifest |-> FileRec(1), lines |-> UnendedOldLines],
     [fileoutput |-> OpM, manifest |-> LinkedFile, lines |-> OldLines],
     [fileoutput |-> OpM, manifest |-> ReadOnlyFile, lines |-> OldLines]}

\* xxh path... [-f m] [-r], started in some filesystem
InitHash ==
    /\ \E cx \in {0} \cup Contents, cz \in {0, 1}, o \in OutputChoices,
          p \in HashOperands, r \in BOOLEAN :
         /\ fs = MakeFs(cx, cz, 1, 2, o.manifest)
         /\ mf_lines = o.lines
         /\ args = [cmd |-> "xxh", path |-> p, fileoutput |-> o.fileoutput,
                    recursive |-> r, verbose |-> FALSE]
    /\ pc = "h_start"
    /\ fs_changes = 0
    /\ cache_dict = EmptyDict
    /\ ci = 0
    /\ hash_dict = EmptyDict
    /\ roots = <<>>
    /\ todo = {}
    /\ cur = <<>>
    /\ report = NoReport
    /\ errors = <<>>
    /\ exit_code = 0
    /\ xxh_calls = {}
    /\ xxh_failed = {}
    /\ traversed = {}
    /\ hashed_files = {}
    /\ files = {}
    /\ stdout = <<>>
    /\ run = 1
    /\ mf_before = mf_lines

NextHash ==
    \/ FsChmod
    \/ FsUnlink
    \/ FsSymlink
    \/ HStart
    \/ HPathsInfo
    \/ HOpen
    \/ HWriteNext
    \/ HWriteDone
    \/ HPrintNext
    \/ HPrintDone
    \/ HAgain

SpecHash == InitHash /\ [][NextHash]_vars

(***************************************************************************)
(* The manifest over successive runs (SpecHash)                            *)
(***************************************************************************)
\* s begins with the whole of t
IsPrefixSeq(t, s) == Len(t) <= Len(s) /\ \A i \in 1..Len(t) : s[i] = t[i]

\* C5: a second run of file_output with the same operands, flags and manifest,
\* no file having changed since the first run began, leaves the manifest as it
\* found it: it appends no line.
C5_IdempotentAppend ==
    (run = 2 /\ pc # "h_start" /\ fs_changes = 0) => mf_lines = mf_before

\* the characters of a file, its lines one after the other
RECURSIVE Characters(_)
Characters(lines) ==
    IF lines = <<>> THEN <<>> ELSE Head(lines) \o Characters(Tail(lines))

\* C6, as amended: at every point of every run of file_output, completed or
\* aborted, the characters the manifest held when the run began are an
\* unchanged prefix of the characters it holds: nothing the manifest held is
\* rewritten, reordered or removed.
C6_AppendOnly == IsPrefixSeq(Characters(mf_before), Characters(mf_lines))

\* C6 as the specification states it: the lines the manifest held when the
\* run began are an unchanged prefix of the lines it holds.
C6_AsStated == IsPrefixSeq(mf_before, mf_lines)

\* a second run has completed that found lines in the manifest and added some
C6_Witness ==
    /\ pc = "h_done"
    /\ run = 2
    /\ mf_before # <<>>
    /\ Len(mf_lines) > Len(mf_before)

(***************************************************************************)
(* Either command (SpecAll)                                                *)
(***************************************************************************)
InitAll == Init \/ InitHash

NextAll ==
    \/ FsChmod
    \/ FsUnlink
    \/ FsSymlink
    \/ XdOpenCache
    \/ XdReadLine
    \/ XdCacheLoaded
    \/ XdCheckOperands
    \/ XdFilesCheck
    \/ XdFilesHash
    \/ XdDirsWalk
    \/ XdDirsCheckFile
    \/ XdDirsHashFile
    \/ XdDirsNext
    \/ XdStandardOutput
    \/ HStart
    \/ HPathsInfo
    \/ HOpen
    \/ HWriteNext
    \/ HWriteDone
    \/ HPrintNext
    \/ HPrintDone
    \/ HAgain

SpecAll == InitAll /\ [][NextAll]_vars

\* s ends with the whole of t
EndsWith(s, t) ==
    Len(t) <= Len(s) /\ SubSeq(s, Len(s) - Len(t) + 1, Len(s)) = t

\* C7: a file that failed the Hasher's readability re-check is in no path list
\* of the index, no line the run wrote to the manifest records it, and no
\* record of it was printed to standard output.
C7_FailedExcluded ==
    \A file \in xxh_failed :
        /\ \A h \in DOMAIN hash_dict : ~InSeq(AbsPath(file), hash_dict[h])
        /\ \A i \in (Len(mf_before) + 1)..Len(mf_lines) :
              ~EndsWith(mf_lines[i], <<" ", " ">> \o AbsPath(file) \o <<"\n">>)
        /\ \A i \in 1..Len(stdout) : stdout[i][2] # file

(***************************************************************************)
(* The index a comparison run returns (Spec)                               *)
(***************************************************************************)
\* the places of the index that hold path: a digest key and a position in
\* that key's path sequence
PlacesOf(path) ==
    {pl \in UNION {{<<h, i>> : i \in 1..Len(hash_dict[h])} : h \in DOMAIN hash_dict} :
        hash_dict[pl[1]][pl[2]] = path}

\* dirs_hash_dict or files_hash_dict has returned
IndexReturned == pc \in {"x_output", "done"}

\* C11: in the index dirs_hash_dict or files_hash_dict returns, whatever the
\* two operands, every path a digest was computed for is held in exactly one
\* place, and no path is held in two: not under two digest keys, and not
\* twice in one key's path sequence.
C11_HashIndexInvariant ==
    IndexReturned =>
        /\ \A path \in xxh_calls : PlacesOf(path) # {}
        /\ \A path \in {AbsPath(f) : f \in Files} :
              Cardinality(PlacesOf(path)) <= 1

(***************************************************************************)
(* The files one hashing run resolves and records (SpecHash)               *)
(***************************************************************************)
\* the lines of the manifest this run wrote or continued
WrittenLines ==
    {i \in 1..Len(mf_lines) : i > Len(mf_before) \/ mf_lines[i] # mf_before[i]}

\* the lines this run wrote that record path
RecordsWritten(path) ==
    {i \in WrittenLines : EndsWith(mf_lines[i], <<" ", " ">> \o path \o <<"\n">>)}

\* the records this run printed that name a spelling of path
RecordsPrinted(path) ==
    {i \in 1..Len(stdout) : AbsPath(stdout[i][2]) = path}

\* C12: in a run of the hashing command, whatever the list of operands, the
\* files paths_info resolved hold no absolute path under two spellings, and
\* the run writes at most one record of an absolute path to the manifest and
\* prints at most one to standard output.
C12_DedupByAbsolutePath ==
    (args.cmd = "xxh" /\ pc \in {"h_open", "h_loop", "h_print", "h_done"}) =>
        /\ \A f \in files : \A g \in files : AbsPath(f) = AbsPath(g) => f = g
        /\ \A path \in {AbsPath(f) : f \in Files} :
              /\ Cardinality(RecordsWritten(path)) <= 1
              /\ Cardinality(RecordsPrinted(path)) <= 1

====
